---- MODULE Spec2Model ----
(***************************************************************************)
(* Model of the AI PR review agent's finding pipeline:                     *)
(*   - ai_pr_reviewer/reporter.py  check run with batched annotations and  *)
(*                                 the review comment                      *)
(*   - ai_pr_reviewer/main.py      the orchestrator's publishing tail      *)
(*   - ai_pr_reviewer/ai_agent.py  prompt builder and copilot/mock adapter *)
(*   - pr_review_agent.py          prompt builder, OpenRouter call, the    *)
(*                                 free-text finding parser, and the       *)
(*                                 summary + inline comment publisher      *)
(* Strings that the code inspects character by character are sequences of  *)
(* one-character strings.  Every call to the hosting platform or to the    *)
(* backend has a nondeterministic outcome.                                 *)
(***************************************************************************)
EXTENDS Integers, Sequences, FiniteSets, TLC

VARIABLES
    pc,        \* position of the running operation
    findings,  \* the findings handed to the publisher
    summary,   \* the summary handed to the publisher
    i,         \* loop index of the publisher (batch index / finding index)
    calls,     \* platform calls issued so far, in call order
    input,     \* parser / prompt-builder / generator input of this run
    text,      \* raw backend output handed to parse_findings
    parsed,    \* result of parse_findings
    review,    \* result of the review generator
    prompt     \* result of build_prompt

vars == <<pc, findings, summary, i, calls, input, text, parsed, review, prompt>>

\* ---------------------------------------------------------------- bounds
MaxFindings == 85   \* largest number of findings handed to the check-run publisher
MaxInline == 3      \* largest number of findings handed to the inline publisher

\* ---------------------------------------------------------------- helpers
Min(a, b) == IF a < b THEN a ELSE b

Take(s, n) == SubSeq(s, 1, Min(n, Len(s)))

NoValue == [kind |-> "none"]

\* ------------------------------------------------------------------------
\* ai_pr_reviewer/reporter.py
\* ------------------------------------------------------------------------
batch_size == 40

\* math.ceil(len(annotations) / batch_size) or 1
CeilDiv(a, b) == (a + b - 1) \div b

total_batches(n) == IF CeilDiv(n, batch_size) = 0 THEN 1 ELSE CeilDiv(n, batch_size)

\* severity -> annotation_level
Level(f) ==
    IF f.severity = "high" THEN "failure"
    ELSE IF f.severity = "medium" THEN "warning"
    ELSE "notice"

\* f.get('line') or 1   (a missing or zero line is falsy)
LineOr1(f) == IF f.line = 0 THEN 1 ELSE f.line

Annotation(f) ==
    [path |-> f.file, start_line |-> LineOr1(f), end_line |-> LineOr1(f),
     annotation_level |-> Level(f), message |-> <<f.type, f.message>>,
     title |-> f.type]

Annotations(fs) == [k \in 1..Len(fs) |-> Annotation(fs[k])]

\* annotations[i*batch_size:(i+1)*batch_size]
Batch(anns, b) == SubSeq(anns, b * batch_size + 1, Min((b + 1) * batch_size, Len(anns)))

\* variant: every batch is sent as the final one
UpdateStatusEveryBatchCompleted(b, total) == "completed"

\* 'completed' if i == total_batches - 1 else 'in_progress'
UpdateStatus(b, total) == IF b = total - 1 THEN "completed" ELSE "in_progress"

\* summary if i == total_batches - 1 else ''
UpdateSummary(b, total, s) == IF b = total - 1 THEN s ELSE ""

Call(op, status, sum, anns, ok) ==
    [op |-> op, status |-> status, summary |-> sum, annotations |-> anns, ok |-> ok]

\* The k-th structured finding of a review; severities, types and lines vary
\* with k so that every branch of the projection is taken.
Severities == <<"high", "medium", "low", "unknown">>

FindingAt(k) ==
    [file |-> "src/example.py", line |-> k % 3, type |-> "style",
     severity |-> Severities[(k % 4) + 1], message |-> k]

MkFindings(n) == [k \in 1..n |-> FindingAt(k)]

\* requests.post(url, json=initial_payload); r.raise_for_status()
CreateCheckRun ==
    /\ pc = "create"
    /\ \E ok \in BOOLEAN :
        /\ calls' = Append(calls, Call("create_check", "in_progress", "", <<>>, ok))
        /\ pc' = IF ok THEN "update" ELSE "aborted"
    /\ i' = 0
    /\ UNCHANGED <<findings, summary, input, text, parsed, review, prompt>>

\* one iteration of the batch loop: requests.patch(...); resp.raise_for_status()
UpdateCheckRun ==
    /\ pc = "update"
    /\ LET total == total_batches(Len(findings))
           anns == Annotations(findings)
       IN \E ok \in BOOLEAN :
            /\ calls' = Append(calls,
                          Call("update_check", UpdateStatus(i, total),
                               UpdateSummary(i, total, summary), Batch(anns, i), ok))
            /\ pc' = IF ~ok THEN "aborted"
                     ELSE IF i + 1 < total THEN "update"
                     ELSE "review"
    /\ i' = i + 1
    /\ UNCHANGED <<findings, summary, input, text, parsed, review, prompt>>

\* body = summary or 'AI PR Review: no summary generated.'
ReviewBody(s) == IF s = "" THEN "AI PR Review: no summary generated." ELSE s

\* post_review_comment: requests.post(...) whose response is not inspected
PostReviewComment ==
    /\ pc = "review"
    /\ \E ok \in BOOLEAN :
        calls' = Append(calls, Call("create_review", "COMMENT", ReviewBody(summary), <<>>, ok))
    /\ pc' = "done"
    /\ UNCHANGED <<findings, summary, i, input, text, parsed, review, prompt>>

Summaries == {"", "Looks fine."}

\* main.py from line 32 on: a review result is at hand and is published
InitPublish ==
    /\ pc = "create"
    /\ findings \in {MkFindings(n) : n \in 0..MaxFindings}
    /\ summary \in Summaries
    /\ i = 0
    /\ calls = <<>>
    /\ input = NoValue
    /\ text = NoValue
    /\ parsed = NoValue
    /\ review = NoValue
    /\ prompt = NoValue

NextPublish == CreateCheckRun \/ UpdateCheckRun \/ PostReviewComment

SpecPublish == InitPublish /\ [][NextPublish]_vars

\* ------------------------------------------------------------------------
\* pr_review_agent.py : post_summary_and_inline
\* ------------------------------------------------------------------------
ParsedFindingAt(k) == [file |-> "app.py", line |-> k, message |-> k]

MkParsedFindings(n) == [k \in 1..n |-> ParsedFindingAt(k)]

\* try: pr.create_issue_comment(...) except Exception: print(...)
\* if not findings: return
PostSummaryComment ==
    /\ pc = "issue_comment"
    /\ \E ok \in BOOLEAN :
        calls' = Append(calls, Call("issue_comment", "", summary, <<>>, ok))
    /\ pc' = IF Len(findings) = 0 THEN "inline_done" ELSE "get_commits"
    /\ UNCHANGED <<findings, summary, i, input, text, parsed, review, prompt>>

\* latest_commit = list(pr.get_commits())[-1]   (outside any try)
GetCommits ==
    /\ pc = "get_commits"
    /\ \E ok \in BOOLEAN :
        /\ calls' = Append(calls, Call("get_commits", "", "", <<>>, ok))
        /\ pc' = IF ok THEN "inline" ELSE "inline_raised"
    /\ i' = 0
    /\ UNCHANGED <<findings, summary, input, text, parsed, review, prompt>>

\* variant: the loop ends at the first rejected comment
InlineStopsAtFailure(ok, k, n) == IF ok /\ k + 1 < n THEN "inline" ELSE "inline_done"

\* the except clause swallows the failure and the for loop goes on
AfterInline(ok, k, n) == IF k + 1 < n THEN "inline" ELSE "inline_done"

\* one iteration of: for f in findings: try: pr.create_review_comment(...)
PostInlineComment ==
    /\ pc = "inline"
    /\ \E ok \in BOOLEAN :
        /\ calls' = Append(calls, Call("review_comment", "", findings[i + 1].message,
                                       <<findings[i + 1]>>, ok))
        /\ pc' = AfterInline(ok, i, Len(findings))
    /\ i' = i + 1
    /\ UNCHANGED <<findings, summary, input, text, parsed, review, prompt>>

InitInline ==
    /\ pc = "issue_comment"
    /\ findings \in {MkParsedFindings(n) : n \in 0..MaxInline}
    /\ summary \in Summaries
    /\ i = 0
    /\ calls = <<>>
    /\ input = NoValue
    /\ text = NoValue
    /\ parsed = NoValue
    /\ review = NoValue
    /\ prompt = NoValue

NextInline == PostSummaryComment \/ GetCommits \/ PostInlineComment

SpecInline == InitInline /\ [][NextInline]_vars

\* ------------------------------------------------------------------------
\* Properties of the check-run publisher (SpecPublish)
\* ------------------------------------------------------------------------
IsUpdate(c) == c.op = "update_check"

UpdateCalls == SelectSeq(calls, IsUpdate)

\* create_check_with_annotations is over: returned to main, or raised
RunEnded == pc \in {"review", "done", "aborted"}

CheckRunCreated == Len(calls) >= 1 /\ calls[1].op = "create_check" /\ calls[1].ok

\* ceil(A/B), and 1 when A = 0, stated without the code's arithmetic
ExpectedUpdates(a) ==
    IF a = 0 THEN 1
    ELSE CHOOSE n \in 1..a : n * batch_size >= a /\ (n - 1) * batch_size < a

OnlyFinalUpdateCompletes ==
    \A k \in 1..Len(UpdateCalls) :
        IF k = ExpectedUpdates(Len(findings))
        THEN UpdateCalls[k].status = "completed" /\ UpdateCalls[k].summary = summary
        ELSE UpdateCalls[k].status = "in_progress" /\ UpdateCalls[k].summary = ""

\* C1: once the check run exists, a run of create_check_with_annotations over
\* A annotations issues exactly ceil(A/40) update calls (one when A = 0); only
\* the final one carries 'completed' and the summary, every earlier one
\* carries 'in_progress' and an empty summary.
C1_ExactlyCeilUpdates ==
    (RunEnded /\ CheckRunCreated) =>
        /\ Len(UpdateCalls) = ExpectedUpdates(Len(findings))
        /\ OnlyFinalUpdateCompletes

\* C2: whatever the outcome of the individual update calls, the check run
\* receives its final update with status 'completed': a rejected batch update
\* is skipped and the remaining updates are still issued.
C2_AlwaysReachesCompleted ==
    (RunEnded /\ CheckRunCreated) =>
        /\ \E k \in 1..Len(UpdateCalls) : UpdateCalls[k].status = "completed"
        /\ \A k \in 1..Len(UpdateCalls) :
              ~UpdateCalls[k].ok => Len(UpdateCalls) = ExpectedUpdates(Len(findings))

IsStatusCall(c) == c.op \in {"create_check", "update_check"}

StatusCalls == SelectSeq(calls, IsStatusCall)

\* the status sequence is a prefix of  first, in_progress*, completed
StatusPrefixFrom(first) ==
    LET s == StatusCalls IN
    /\ \A k \in 1..Len(s) : (s[k].op = "create_check") <=> (k = 1)
    /\ Len(s) >= 1 => s[1].status = first
    /\ \A k \in 2..Len(s) : s[k].status \in {"in_progress", "completed"}
    /\ \A k \in 2..Len(s) : s[k].status = "completed" => k = Len(s)

CompletedCount == Cardinality({k \in 1..Len(StatusCalls) : StatusCalls[k].status = "completed"})

IsReview(c) == c.op = "create_review"

\* C5: for every outcome of the check-run create and update calls the
\* orchestrator does not abort and still posts the review comment.
C5_ReviewAlwaysPosted ==
    /\ pc # "aborted"
    /\ pc = "done" => Len(SelectSeq(calls, IsReview)) = 1

\* ------------------------------------------------------------------------
\* Properties of the inline publisher (SpecInline)
\* ------------------------------------------------------------------------
IsInline(c) == c.op = "review_comment"

InlineCalls == SelectSeq(calls, IsInline)

IsIssueComment(c) == c.op = "issue_comment"

IsFailedGetCommits(c) == c.op = "get_commits" /\ ~c.ok

InlineEnded == pc \in {"inline_done", "inline_raised"}

\* C4: with N findings, a failed inline comment i does not stop comments
\* i+1..N, each attempted exactly once in finding order; the summary comment
\* is attempted exactly once, before them; and a failed summary comment does
\* not stop the inline comments (the commit lookup between the two is the one
\* call whose failure ends the operation).
C4_InlineIsolation ==
    /\ Len(SelectSeq(calls, IsIssueComment)) <= 1
    /\ Len(calls) >= 1 => calls[1].op = "issue_comment"
    /\ \A k \in 1..Len(InlineCalls) : InlineCalls[k].annotations = <<findings[k]>>
    /\ (InlineEnded /\ Len(SelectSeq(calls, IsFailedGetCommits)) = 0) =>
          Len(InlineCalls) = Len(findings)

\* the summary and the first inline comment failed, and all three inline
\* comments were attempted
C4_Witness ==
    /\ pc = "inline_done"
    /\ Len(findings) = 3
    /\ ~calls[1].ok
    /\ Len(InlineCalls) = 3
    /\ ~InlineCalls[1].ok
    /\ InlineCalls[3].ok

\* ------------------------------------------------------------------------
\* pr_review_agent.py : parse_findings
\* ------------------------------------------------------------------------
MaxLines == 3     \* lines of the free-text body next to the padding
MaxPathLen == 2   \* characters of a rendered path
MaxMsgLen == 2    \* characters of a rendered message
MaxLineNo == 11   \* largest rendered line number

SummaryCap == 20  \* summary_lines[:20]

Digits == <<"0", "1", "2", "3", "4", "5", "6", "7", "8", "9">>

IsDigit(c) == \E d \in 1..10 : Digits[d] = c

IsSpace(c) == c \in {" ", "\t", "\n"}

DigitVal(c) == (CHOOSE d \in 1..10 : Digits[d] = c) - 1

\* variant: the line number is not read
DigitsToIntAlwaysOne(ds) == 1

\* int(ln)
RECURSIVE DigitsToInt(_)
DigitsToInt(ds) ==
    IF ds = <<>> THEN 0
    ELSE 10 * DigitsToInt(SubSeq(ds, 1, Len(ds) - 1)) + DigitVal(ds[Len(ds)])

\* str.splitlines(): a line break ends a line, no empty last line
LineBreaks(t) == {k \in 1..Len(t) : t[k] = "\n"}

\* position of the j-th line break of t
NthBreak(t, j) ==
    CHOOSE p \in LineBreaks(t) : Cardinality({q \in LineBreaks(t) : q < p}) = j - 1

SplitLines(t) ==
    LET nb == Cardinality(LineBreaks(t))
        n == IF t # <<>> /\ t[Len(t)] # "\n" THEN nb + 1 ELSE nb
    IN [k \in 1..n |->
            SubSeq(t, IF k = 1 THEN 1 ELSE NthBreak(t, k - 1) + 1,
                      IF k <= nb THEN NthBreak(t, k) - 1 ELSE Len(t))]

RECURSIVE LStrip(_)
LStrip(s) == IF s # <<>> /\ IsSpace(Head(s)) THEN LStrip(Tail(s)) ELSE s

RECURSIVE RStrip(_)
RStrip(s) ==
    IF s # <<>> /\ IsSpace(s[Len(s)]) THEN RStrip(SubSeq(s, 1, Len(s) - 1)) ELSE s

\* str.strip()
Strip(s) == RStrip(LStrip(s))

\* '\n'.join(ls)
RECURSIVE JoinLines(_)
JoinLines(ls) ==
    IF ls = <<>> THEN <<>>
    ELSE IF Len(ls) = 1 THEN ls[1]
    ELSE ls[1] \o <<"\n">> \o JoinLines(Tail(ls))

\* index of the first ':' of the line, 0 when it has none
FirstColon(line) ==
    IF \E k \in 1..Len(line) : line[k] = ":"
    THEN CHOOSE k \in 1..Len(line) : line[k] = ":" /\ \A j \in 1..(k - 1) : line[j] # ":"
    ELSE 0

\* length of the longest run of digits / of white space starting at index k
RECURSIVE DigitRun(_, _)
DigitRun(line, k) ==
    IF k <= Len(line) /\ IsDigit(line[k]) THEN 1 + DigitRun(line, k + 1) ELSE 0

RECURSIVE SpaceRun(_, _)
SpaceRun(line, k) ==
    IF k <= Len(line) /\ IsSpace(line[k]) THEN 1 + SpaceRun(line, k + 1) ELSE 0

\* re.match(r'^([^:]+):(\d+)\s*-\s*(.+)$', line): the groups of the one way
\* the pattern can match.  ([^:]+) ends at the first ':', (\d+) is the whole
\* digit run after it, '-' follows optional white space, and (.+) is what is
\* left after the white space behind the '-' (its last character when nothing
\* else is left).
MatchFinding(line) ==
    LET p == FirstColon(line)
        d == DigitRun(line, p + 1)
        r == p + d + 1 + SpaceRun(line, p + d + 1)
        rest == SubSeq(line, r + 1, Len(line))
        ok == /\ p >= 2
              /\ d >= 1
              /\ r <= Len(line)
              /\ line[r] = "-"
              /\ rest # <<>>
    IN IF ok
       THEN [matched |-> TRUE, path |-> SubSeq(line, 1, p - 1),
             ln |-> SubSeq(line, p + 1, p + d),
             msg |-> IF LStrip(rest) = <<>> THEN <<rest[Len(rest)]>> ELSE LStrip(rest)]
       ELSE [matched |-> FALSE, path |-> <<>>, ln |-> <<>>, msg |-> <<>>]

\* {'file': path.strip(), 'line': int(ln), 'message': msg.strip()}
FindingOf(m) == [file |-> Strip(m.path), line |-> DigitsToInt(m.ln), message |-> Strip(m.msg)]

\* variant: the summary keeps every line
SummaryOfNoCap(summary_lines) == JoinLines(summary_lines)

\* '\n'.join(summary_lines[:20])
SummaryOf(summary_lines) == JoinLines(Take(summary_lines, SummaryCap))

\* the for loop of parse_findings over the remaining lines
RECURSIVE ParseLoop(_, _, _)
ParseLoop(lines, fs, summary_lines) ==
    IF lines = <<>> THEN [summary |-> SummaryOf(summary_lines), findings |-> fs]
    ELSE LET line == Strip(Head(lines))
             m == MatchFinding(line)
         IN IF line = <<>> THEN ParseLoop(Tail(lines), fs, summary_lines)
            ELSE IF m.matched
                 THEN ParseLoop(Tail(lines), Append(fs, FindingOf(m)), summary_lines)
                 ELSE ParseLoop(Tail(lines), fs, Append(summary_lines, line))

parse_findings(t) == ParseLoop(SplitLines(t), <<>>, <<>>)

\* text.splitlines() exists on a str only: any other value raises AttributeError
Parse ==
    /\ pc = "parse"
    /\ IF text.kind = "str"
       THEN /\ parsed' = [kind |-> "result", summary |-> parse_findings(text.chars).summary,
                          findings |-> parse_findings(text.chars).findings]
            /\ pc' = "parsed"
       ELSE /\ parsed' = parsed
            /\ pc' = "parse_raised"
    /\ UNCHANGED <<findings, summary, i, calls, input, text, review, prompt>>

\* ---- inputs of the parser
Str(chars) == [kind |-> "str", chars |-> chars]

RECURSIVE SeqsUpTo(_, _)
SeqsUpTo(S, n) ==
    IF n = 0 THEN {<<>>}
    ELSE SeqsUpTo(S, n - 1) \cup {Append(s, c) : s \in SeqsUpTo(S, n - 1), c \in S}

\* a line that matches, free text, a blank line, padded free text, a line with
\* a non-numeric line token, a white-space line, a second matching line
BodyLines ==
    { <<"a", ":", "1", " ", "-", " ", "m">>,
      <<"s">>,
      <<>>,
      <<" ", "t", " ">>,
      <<"a", ":", "x", " ", "-", " ", "m">>,
      <<" ", " ">>,
      <<"b", ":", "2", "0", "-", "n">> }

FillerLine == <<"x">>

PadCounts == {0, SummaryCap - 1, SummaryCap}

Padding(k) == [j \in 1..k |-> FillerLine]

LinesInputs ==
    { [kind |-> "lines", lines |-> Padding(k) \o body] :
        k \in PadCounts, body \in SeqsUpTo(BodyLines, MaxLines) }

PathChars == {"a", " ", "-"}

MsgChars == {"m", " ", "-", ":", "\n"}

\* str(line)
RECURSIVE IntToDigits(_)
IntToDigits(n) ==
    IF n < 10 THEN <<Digits[n + 1]>>
    ELSE IntToDigits(n \div 10) \o <<Digits[(n % 10) + 1]>>

\* line tokens that are not a valid positive integer: empty, non-numeric, zero
BadTokens == {<<>>, <<"x">>, <<"0">>}

Tokens ==
    { [tok |-> IntToDigits(n), line |-> n] : n \in 1..MaxLineNo }
    \cup { [tok |-> t, line |-> 0] : t \in BadTokens }

RenderInputs ==
    { [kind |-> "render", path |-> p, tok |-> t.tok, line |-> t.line, msg |-> m] :
        p \in SeqsUpTo(PathChars, MaxPathLen), t \in Tokens,
        m \in SeqsUpTo(MsgChars, MaxMsgLen) }

\* f"{path}:{line} - {message}"
Render(path, tok, msg) == path \o <<":">> \o tok \o <<" ", "-", " ">> \o msg

TextOf(in) ==
    IF in.kind = "lines" THEN JoinLines(in.lines) ELSE Render(in.path, in.tok, in.msg)

InitParse ==
    /\ pc = "parse"
    /\ input \in LinesInputs \cup RenderInputs
    /\ text = Str(TextOf(input))
    /\ findings = <<>>
    /\ summary = ""
    /\ i = 0
    /\ calls = <<>>
    /\ parsed = NoValue
    /\ review = NoValue
    /\ prompt = NoValue

NextParse == Parse

SpecParse == InitParse /\ [][NextParse]_vars

\* ------------------------------------------------------------------------
\* Properties of the parser (SpecParse)
\* ------------------------------------------------------------------------
MapFinding(ls) == [k \in 1..Len(ls) |-> FindingOf(MatchFinding(Strip(ls[k])))]

MapStrip(ls) == [k \in 1..Len(ls) |-> Strip(ls[k])]

\* a line matches the finding grammar
LineMatches(l) == MatchFinding(Strip(l)).matched

LineDoesNotMatch(l) == ~LineMatches(l)

IsBlank(l) == Strip(l) = <<>>

NonBlankNonMatching(l) == ~IsBlank(l) /\ ~LineMatches(l)

ParsedLines == pc = "parsed" /\ input.kind = "lines"

\* C6 as stated: of N input lines of which K match, the K findings come out
\* in input order and the summary is the first (up to 20) of all N-K
\* non-matching lines, joined in order.
C6_LeniencyAllLines ==
    ParsedLines =>
        /\ parsed.findings = MapFinding(SelectSeq(input.lines, LineMatches))
        /\ parsed.summary =
              JoinLines(Take(SelectSeq(input.lines, LineDoesNotMatch), SummaryCap))

\* C6 amended: blank (empty or white-space-only) lines are skipped and every
\* other line is trimmed first; of the non-blank lines, the K matching ones
\* give exactly K findings in input order and the summary is the first (up to
\* 20) of the non-matching ones, trimmed, joined in order; no line stops the
\* processing of the lines after it.
C6_LeniencyNonBlankLines ==
    ParsedLines =>
        /\ parsed.findings = MapFinding(SelectSeq(input.lines, LineMatches))
        /\ parsed.summary =
              JoinLines(Take(MapStrip(SelectSeq(input.lines, NonBlankNonMatching)),
                             SummaryCap))

\* more than 20 non-matching lines, a malformed line, and a finding after them
C6_Witness ==
    /\ ParsedLines
    /\ Len(SelectSeq(input.lines, NonBlankNonMatching)) > SummaryCap
    /\ \E k \in 1..Len(input.lines) : input.lines[k] = <<"a", ":", "x", " ", "-", " ", "m">>
    /\ LineMatches(input.lines[Len(input.lines)])
    /\ Len(parsed.findings) = 1

\* a non-empty string with no white space at either end and no line break
Plain(s) == s # <<>> /\ Strip(s) = s /\ \A k \in 1..Len(s) : s[k] # "\n"

ParsedRender == pc = "parsed" /\ input.kind = "render"

\* C7: a line '<path>:<token> - <message>' whose token is not a valid
\* positive integer still yields a finding, with line = 1, and is not moved to
\* the summary; every parsed finding has line >= 1.
C7_BadTokenDefaultsToOne ==
    /\ (ParsedRender /\ input.tok \in BadTokens /\ Plain(input.path) /\ Plain(input.msg)) =>
          /\ parsed.findings = <<[file |-> input.path, line |-> 1, message |-> input.msg]>>
          /\ parsed.summary = <<>>
    /\ pc = "parsed" => \A k \in 1..Len(parsed.findings) : parsed.findings[k].line >= 1

RoundTrips ==
    /\ parsed.findings = <<[file |-> input.path, line |-> input.line, message |-> input.msg]>>
    /\ parsed.summary = <<>>

\* C8 as stated: for every colon-free path, every line >= 1 and every message
\* not starting with '-', parsing the rendered line gives back exactly the
\* inputs and an empty summary.
C8_RoundTripAnyText ==
    (ParsedRender /\ input.line >= 1 /\ (input.msg = <<>> \/ Head(input.msg) # "-")) =>
        RoundTrips

\* C8 amended: the round trip holds when path and message are moreover
\* non-empty, free of line breaks and free of leading and trailing white space.
C8_RoundTripPlainText ==
    (ParsedRender /\ input.line >= 1 /\ Plain(input.path) /\ Plain(input.msg)
        /\ Head(input.msg) # "-") =>
        RoundTrips

\* a two-digit line, a path holding a '-' and a message holding a ':'
C8_Witness ==
    /\ ParsedRender
    /\ input.line = 10
    /\ input.path = <<"a", "-">>
    /\ input.msg = <<":", "m">>
    /\ RoundTrips

\* ------------------------------------------------------------------------
\* The review generators
\*   ai_pr_reviewer/ai_agent.py : generate_review, copilot_adapter, mock_adapter
\*   pr_review_agent.py         : call_openrouter and its caller in main
\* A backend response is [net, status, json, data]: whether the request came
\* back at all, the HTTP status, whether the body is JSON, and the decoded
\* body.  A decoded body is described by what the code looks at.
\* ------------------------------------------------------------------------

\* shapes of a JSON value met where a {summary, findings} object is expected:
\* such an object, an object lacking both keys, a value that is no object
ValueShapes == {"result", "empty_obj", "scalar"}

\* what the caller gets when a JSON value of shape v is returned as it is
PassThrough(v) ==
    IF v = "result" THEN [kind |-> "value", shape |-> "result", summary |-> "model", findings |-> "model"]
    ELSE [kind |-> "value", shape |-> v, summary |-> "absent", findings |-> "absent"]

\* mock_adapter: a fixed summary and one illustrative finding
mock_adapter == [kind |-> "value", shape |-> "result", summary |-> "mock", findings |-> "mock"]

\* {'summary': 'Copilot agent call failed: ' + str(ex), 'findings': []}
CopilotFailed == [kind |-> "value", shape |-> "result", summary |-> "error", findings |-> "empty"]

\* {'summary': str(data)[:1000], 'findings': []}
CopilotBody == [kind |-> "value", shape |-> "result", summary |-> "body", findings |-> "empty"]

\* decoded bodies seen by copilot_adapter:
\*   isdict      the body is a JSON object
\*   review      shape of data['review'], or "absent"
\*   output      data['output']: "absent", "not_json" (json.loads raises),
\*               "json_scalar" (parses to a value with no .get), "json_obj"
\*   out_review  shape of parsed['review'], or "absent"
\*   out_self    shape of parsed itself when it is an object
CopilotData ==
    { [isdict |-> FALSE, review |-> "absent", output |-> "absent",
       out_review |-> "absent", out_self |-> "empty_obj"] }
    \cup
    { [isdict |-> TRUE, review |-> r, output |-> o, out_review |-> orv, out_self |-> os] :
        r \in ValueShapes \cup {"absent"},
        o \in {"absent", "not_json", "json_scalar", "json_obj"},
        orv \in ValueShapes \cup {"absent"},
        os \in {"result", "empty_obj"} }

NetOutcomes == {"ok", "timeout"}

HttpStatuses == {200, 201, 500}

Responses(datas) ==
    { [net |-> n, status |-> st, json |-> j, data |-> d] :
        n \in NetOutcomes, st \in HttpStatuses, j \in BOOLEAN, d \in datas }

Is2xx(st) == st >= 200 /\ st < 300

\* the json.loads(data['output']) branch, lines 48-53
CopilotOutput(d) ==
    IF d.output \in {"not_json", "json_scalar"} THEN CopilotBody
    ELSE IF d.out_review # "absent" THEN PassThrough(d.out_review)
    ELSE PassThrough(d.out_self)

copilot_adapter(creds, resp) ==
    IF ~creds THEN mock_adapter
    ELSE IF resp.net # "ok" \/ ~Is2xx(resp.status) \/ ~resp.json THEN CopilotFailed
    ELSE IF resp.data.isdict /\ resp.data.review # "absent" THEN PassThrough(resp.data.review)
    ELSE IF resp.data.isdict /\ resp.data.output # "absent" THEN CopilotOutput(resp.data)
    ELSE CopilotBody

generate_review(agent_type, creds, resp) ==
    IF agent_type = "copilot" THEN copilot_adapter(creds, resp) ELSE mock_adapter

GenerateReview ==
    /\ pc = "generate"
    /\ review' = generate_review(input.agent_type, input.creds, input.resp)
    /\ pc' = "generated"
    /\ UNCHANGED <<findings, summary, i, calls, input, text, parsed, prompt>>

\* ---- call_openrouter
OpenRouterCallFailed ==
    <<"O", "p", "e", "n", "R", "o", "u", "t", "e", "r", " ", "c", "a", "l",
      "l", " ", "f", "a", "i", "l", "e", "d", ":", " ">>

\* f'OpenRouter API error {resp.status_code}: {resp.text}'
OpenRouterApiError(status, body) ==
    <<"O", "p", "e", "n", "R", "o", "u", "t", "e", "r", " ", "A", "P", "I", " ",
      "e", "r", "r", "o", "r", " ">>
    \o IntToDigits(status) \o <<":", " ">> \o body

\* str(e) of the exception of a request that did not come back, of a body
\* that is not JSON
TimeoutText ==
    <<"R", "e", "a", "d", " ", "t", "i", "m", "e", "d", " ", "o", "u", "t",
      ".">>

JsonErrorText ==
    <<"E", "x", "p", "e", "c", "t", "i", "n", "g", " ", "v", "a", "l", "u",
      "e", ":", " ", "l", "i", "n", "e", " ", "1", " ", "c", "o", "l", "u",
      "m", "n", " ", "1", " ", "(", "c", "h", "a", "r", " ", "0", ")">>

\* resp.text of a response whose status is not 200: empty, one line, or
\* several lines
ErrorBodies ==
    { <<>>,
      <<"e", "r", "r">>,
      <<"e", "r", "r", "\n", "a", ":", "1", " ", "-", " ", "m">> }

\* text of a model reply: a summary line and one finding; nothing but a summary
ReplyTexts ==
    { <<"o", "k", "\n", "a", ":", "1", " ", "-", " ", "m">>,
      <<"o", "k">> }

\* decoded bodies seen by call_openrouter:
\*   walk     "ok" when data.get('choices', [])[0].get('message', {}) can be
\*            evaluated, "raises" when it cannot (no object, no choice, ...)
\*   content  message content: "str", "falsy" (absent, null, ''), "nonstr"
\*            (a truthy value that is no string: number, list of parts, object)
\*   output   data.get('output'): "str", "falsy", "nonstr"
\*   reply    the text of the string that is returned, when one is
\*   dump     json.dumps(data)
OpenRouterData ==
    { [walk |-> "raises", content |-> "falsy", output |-> "falsy", reply |-> <<>>, dump |-> d] :
        d \in { <<"[", "]">>, <<"{", "}">>,
                <<"[", "\"", "a", ":", "1", " ", "-", " ", "m", "\"", "]">> } }
    \cup
    { [walk |-> "ok", content |-> c, output |-> o, reply |-> r, dump |-> <<"{", "}">>] :
        c \in {"str", "falsy", "nonstr"}, o \in {"str", "falsy", "nonstr"}, r \in ReplyTexts }

NonStr == [kind |-> "nonstr", chars |-> <<>>]

Raised(msg) == [kind |-> "raised", chars |-> msg]

\* text = content or data.get('output') or ''; json.dumps(data) when the walk raises
call_openrouter(resp) ==
    IF resp.net # "ok" THEN Raised(TimeoutText)
    ELSE IF resp.status # 200 THEN Raised(OpenRouterApiError(resp.status, resp.data.errbody))
    ELSE IF ~resp.json THEN Raised(JsonErrorText)
    ELSE IF resp.data.walk = "raises" THEN Str(resp.data.dump)
    ELSE IF resp.data.content = "str" THEN Str(resp.data.reply)
    ELSE IF resp.data.content = "nonstr" THEN NonStr
    ELSE IF resp.data.output = "str" THEN Str(resp.data.reply)
    ELSE IF resp.data.output = "nonstr" THEN NonStr
    ELSE Str(<<>>)

\* main: try: text = call_openrouter(...) except Exception as e:
\*           text = 'OpenRouter call failed: ' + str(e)
CallOpenRouter ==
    /\ pc = "call_openrouter"
    /\ LET r == call_openrouter(input.resp)
       IN text' = IF r.kind = "raised" THEN Str(OpenRouterCallFailed \o r.chars) ELSE r
    /\ pc' = "parse"
    /\ UNCHANGED <<findings, summary, i, calls, input, parsed, review, prompt>>

CopilotInputs ==
    { [kind |-> "copilot", agent_type |-> a, creds |-> c, resp |-> r] :
        a \in {"copilot", "mock"}, c \in BOOLEAN, r \in Responses(CopilotData) }

OpenRouterBodies ==
    { [walk |-> d.walk, content |-> d.content, output |-> d.output, reply |-> d.reply,
       dump |-> d.dump, errbody |-> b] : d \in OpenRouterData, b \in ErrorBodies }

OpenRouterInputs ==
    { [kind |-> "openrouter", resp |-> r] : r \in Responses(OpenRouterBodies) }

InitGen ==
    /\ input \in CopilotInputs \cup OpenRouterInputs
    /\ pc = IF input.kind = "copilot" THEN "generate" ELSE "call_openrouter"
    /\ text = NoValue
    /\ findings = <<>>
    /\ summary = ""
    /\ i = 0
    /\ calls = <<>>
    /\ parsed = NoValue
    /\ review = NoValue
    /\ prompt = NoValue

NextGen == GenerateReview \/ CallOpenRouter \/ Parse

SpecGen == InitGen /\ [][NextGen]_vars

\* ------------------------------------------------------------------------
\* Properties of the review generators (SpecGen)
\* ------------------------------------------------------------------------
\* the decoded body carries a {summary, findings} object where the adapter
\* looks for one
CopilotExpectedShape(d) ==
    /\ d.isdict
    /\ \/ d.review = "result"
       \/ /\ d.review = "absent"
          /\ d.output = "json_obj"
          /\ \/ d.out_review = "result"
             \/ d.out_review = "absent" /\ d.out_self = "result"

CopilotCalled == input.kind = "copilot" /\ input.agent_type = "copilot" /\ input.creds

\* timeout, non-2xx, body that is not JSON, JSON of unexpected shape
CopilotBackendFailed ==
    /\ CopilotCalled
    /\ \/ input.resp.net # "ok"
       \/ ~Is2xx(input.resp.status)
       \/ ~input.resp.json
       \/ ~CopilotExpectedShape(input.resp.data)

OpenRouterBackendFailed ==
    /\ input.kind = "openrouter"
    /\ \/ input.resp.net # "ok"
       \/ input.resp.status # 200
       \/ ~input.resp.json
       \/ input.resp.data.walk = "raises"
       \/ input.resp.data.content = "nonstr"
       \/ input.resp.data.content = "falsy" /\ input.resp.data.output # "str"

\* C9: for every backend outcome the generator does not raise past its
\* boundary: it yields a result object with a summary string (the mock's when
\* credentials are absent, the error text on failure) and, on failure, an
\* empty findings list.
C9_GeneratorDegrades ==
    /\ pc # "parse_raised"
    /\ pc = "generated" =>
          /\ review.shape = "result"
          /\ (input.agent_type = "copilot" /\ ~input.creds) => review.summary = "mock"
          /\ CopilotBackendFailed =>
                review.summary \in {"error", "body"} /\ review.findings = "empty"
    /\ (pc = "parsed" /\ OpenRouterBackendFailed) =>
          parsed.findings = <<>> /\ parsed.summary = text.chars

\* ------------------------------------------------------------------------
\* The prompt builders
\*   ai_pr_reviewer/ai_agent.py : build_prompt
\*   pr_review_agent.py         : build_prompt and the diff cut of its caller
\* A text is a non-empty sequence of lines separated by line breaks; a line
\* is [indent, body]: indent spaces followed by body other characters.
\* ------------------------------------------------------------------------
max_diff == 15000        \* diff[:max_diff]
max_analysis == 12000    \* json.dumps(analysis)[:12000]
main_diff_cap == 25000   \* "\n\n".join(...)[:25000]
TemplateIndent == 8      \* indentation of the template lines around the inserts

Max(a, b) == IF a > b THEN a ELSE b

Line(indent, body) == [indent |-> indent, body |-> body]

LineLen(l) == l.indent + l.body

RECURSIVE TextLen(_)
TextLen(t) == IF Len(t) = 1 THEN LineLen(t[1]) ELSE LineLen(t[1]) + 1 + TextLen(Tail(t))

CutLine(l, k) == Line(Min(l.indent, k), Min(l.body, Max(0, k - l.indent)))

\* t[:k]
RECURSIVE Slice(_, _)
Slice(t, k) ==
    IF Len(t) = 1 \/ k <= LineLen(t[1]) THEN <<CutLine(t[1], k)>>
    ELSE <<t[1]>> \o Slice(Tail(t), k - LineLen(t[1]) - 1)

\* json.dumps(analysis): '[' entry ', ' entry ... ']' on one line
JsonDumps(a) ==
    <<Line(0, IF a.n = 0 THEN 2 ELSE 2 + a.n * a.entry + 2 * (a.n - 1))>>

\* '\n'.join(entries) or 'No static analysis issues found.'
AnalysisText(a) ==
    IF a.n = 0 THEN <<Line(0, 32)>>
    ELSE [k \in 1..a.n |-> Line(0, a.entry)]

IsBlankLine(l) == l.body = 0

\* textwrap.dedent applied to the rendered template, seen from the diff that
\* was inserted behind the template's indentation: lines of white space only
\* are emptied, and the margin common to all other lines (the template's
\* indentation, unless a later diff line is indented less) is cut off
DedentMargin(d) ==
    LET later == {d[k].indent : k \in {j \in 2..Len(d) : ~IsBlankLine(d[j])}}
    IN IF later = {} THEN TemplateIndent
       ELSE Min(TemplateIndent, CHOOSE m \in later : \A x \in later : m <= x)

Dedent(d) ==
    [k \in 1..Len(d) |->
        IF IsBlankLine(d[k]) THEN Line(0, 0)
        ELSE IF k = 1 THEN d[k]
        ELSE Line(d[k].indent - DedentMargin(d), d[k].body)]

Prompt(diffPart, analysisPart) ==
    [kind |-> "prompt", diff |-> diffPart, analysis |-> analysisPart]

\* ai_agent.build_prompt
build_prompt_ai(diff, analysis) ==
    Prompt(Dedent(Slice(diff, max_diff)), Slice(JsonDumps(analysis), max_analysis))

\* pr_review_agent.build_prompt
build_prompt_pr(diff_text, analysis) == Prompt(diff_text, AnalysisText(analysis))

BuildPromptAi ==
    /\ pc = "build_prompt_ai"
    /\ prompt' = build_prompt_ai(input.diff, input.analysis)
    /\ pc' = "built"
    /\ UNCHANGED <<findings, summary, i, calls, input, text, parsed, review>>

\* main: diff_text = "\n\n".join(...)[:25000]
MainCutDiff ==
    /\ pc = "main_diff"
    /\ text' = [kind |-> "text", lines |-> Slice(input.diff, main_diff_cap)]
    /\ pc' = "build_prompt_pr"
    /\ UNCHANGED <<findings, summary, i, calls, input, parsed, review, prompt>>

BuildPromptPr ==
    /\ pc = "build_prompt_pr"
    /\ prompt' = build_prompt_pr(text.lines, input.analysis)
    /\ pc' = "built"
    /\ UNCHANGED <<findings, summary, i, calls, input, text, parsed, review>>

\* ---- inputs of the builders
DiffLengths ==
    {0, 1, max_diff - 1, max_diff, max_diff + 1, main_diff_cap - 1, main_diff_cap,
     main_diff_cap + 1}

\* one long line; a changed line after a context line that is one space (an
\* empty source line in a unified diff); an indented second line
DiffTexts ==
    { <<Line(0, n)>> : n \in DiffLengths }
    \cup { <<Line(0, 10), Line(1, 0), Line(0, n)>> : n \in DiffLengths }
    \cup { <<Line(0, 10), Line(k, n)>> : k \in {3, 12}, n \in {1, max_diff, main_diff_cap} }

\* n entries, each rendered to entry (> 0) characters
Analyses == { [n |-> n, entry |-> e] : n \in 0..3, e \in {40, 6000} }

PromptInputs ==
    { [kind |-> b, diff |-> d, analysis |-> a] :
        b \in {"ai_agent", "pr_review_agent"}, d \in DiffTexts, a \in Analyses }

InitPrompt ==
    /\ input \in PromptInputs
    /\ pc = IF input.kind = "ai_agent" THEN "build_prompt_ai" ELSE "main_diff"
    /\ text = NoValue
    /\ findings = <<>>
    /\ summary = ""
    /\ i = 0
    /\ calls = <<>>
    /\ parsed = NoValue
    /\ review = NoValue
    /\ prompt = NoValue

NextPrompt == BuildPromptAi \/ MainCutDiff \/ BuildPromptPr

SpecPrompt == InitPrompt /\ [][NextPrompt]_vars

\* ------------------------------------------------------------------------
\* Properties of the prompt builders (SpecPrompt)
\* ------------------------------------------------------------------------
DiffCapOf(in) == IF in.kind = "ai_agent" THEN max_diff ELSE main_diff_cap

AnalysisInserted(in) ==
    IF in.kind = "ai_agent" THEN JsonDumps(in.analysis) ELSE AnalysisText(in.analysis)

\* the first k characters of t, all of t when it has no more than k
RECURSIVE Prefix(_, _)
Prefix(t, k) ==
    IF TextLen(t) <= k THEN t
    ELSE IF k <= LineLen(t[1]) THEN <<CutLine(t[1], k)>>
    ELSE <<t[1]>> \o Prefix(Tail(t), k - LineLen(t[1]) - 1)

\* C10: the builder never raises on oversized input; the diff contributes
\* exactly its first cap characters, the analysis text exactly its first cap
\* characters, each cut on its own, and a text within its cap is included
\* unchanged.
C10_TruncationSafety ==
    pc = "built" =>
        /\ prompt.diff = Prefix(input.diff, DiffCapOf(input))
        /\ prompt.analysis = Prefix(AnalysisInserted(input), max_analysis)

\* ------------------------------------------------------------------------
\* Properties of the batches of the check-run publisher
\* ------------------------------------------------------------------------
\* the annotation lists of the first n update calls, concatenated in call order
RECURSIVE SentAnnotations(_)
SentAnnotations(n) ==
    IF n = 0 THEN <<>>
    ELSE SentAnnotations(n - 1) \o UpdateCalls[n].annotations

\* every batch holds at most batch_size annotations, every batch but the last
\* one sent holds exactly batch_size
BatchSizesRespected ==
    \A k \in 1..Len(UpdateCalls) :
        /\ Len(UpdateCalls[k].annotations) <= batch_size
        /\ k < Len(UpdateCalls) => Len(UpdateCalls[k].annotations) = batch_size

\* what was sent so far is one annotation per finding, in input order, for
\* an initial stretch of the findings
SentIsPrefixOfFindings ==
    LET sent == SentAnnotations(Len(UpdateCalls))
    IN /\ Len(sent) <= Len(findings)
       /\ \A k \in 1..Len(sent) : sent[k] = Annotation(findings[k])

\* C11: once create_check_with_annotations is over (the check run having been
\* created), the annotation lists of its update calls, concatenated in call
\* order, are exactly one annotation per finding in the findings' input order
\* (none omitted, duplicated or reordered); every batch holds at most 40
\* annotations and every batch except the last holds exactly 40.
C11_OrderPreservingPartition ==
    (RunEnded /\ CheckRunCreated) =>
        /\ Len(SentAnnotations(Len(UpdateCalls))) = Len(findings)
        /\ SentIsPrefixOfFindings
        /\ BatchSizesRespected

\* the part of C11 that every run keeps: no annotation is duplicated or
\* reordered and the batch sizes are respected; only omission can happen
C11_NoDuplicateNoReorder == SentIsPrefixOfFindings /\ BatchSizesRespected

====
